---------------------------- MODULE Spec2Model ----------------------------
(***************************************************************************)
(* Model of go-geoserve's GeoServer (src/geoserve/geoserve.go):            *)
(*   - NewServer, which builds the server and starts its two goroutines,   *)
(*   - Handle, one goroutine per HTTP request,                             *)
(*   - run, the goroutine that owns server.db and server.cache,            *)
(*   - keepDbCurrent / updateDb, the goroutine that polls the database URL.*)
(* A goroutine is a program counter plus its locals; a channel operation   *)
(* on an unbuffered channel is one joint step of sender and receiver.      *)
(***************************************************************************)
EXTENDS Integers, Sequences, FiniteSets

(***************************************************************************)
(* Bounds of the model.                                                    *)
(***************************************************************************)
\* Number of HTTP requests handled in one behaviour.
MaxRequests == 3
\* Number of versions the remote database goes through (its Last-Modified).
MaxRemote == 2
\* lru.New(CacheSize): 50000 in the source, scaled down so that eviction happens.
CacheSize == 2

(***************************************************************************)
(* Program constants.                                                      *)
(***************************************************************************)
\* make(chan get, 10000)
CacheGetCap == 10000
\* sleepInterval = 5 * time.Minute, in minutes
ShortInterval == 5
\* sleepInterval := 1 * time.Hour, in minutes
LongInterval == 60
\* resp.WriteHeader(500)
StatusError == 500
\* the status of a response written without WriteHeader
StatusOK == 200
\* http.StatusNotModified
StatusNotModified == 304
\* a nil *geoip2.Reader
NilDb == 0
\* time.Time{}
ZeroTime == 0
\* the Location of the zero time and of every time http.ParseTime returns
UTC == 0

\* a nil []byte
NilBytes == <<>>
\* a nil net.IP
NilIP == ""

(***************************************************************************)
(* Inputs.                                                                 *)
(***************************************************************************)
\* addresses every database can parse and look up
ValidIPSeq == <<"1.1.1.1", "2.2.2.2", "3.3.3.3", "4.4.4.4">>
ValidIPs == {ValidIPSeq[i] : i \in 1..Len(ValidIPSeq)}
\* an address every database has a record for that json.Marshal refuses: one
\* of its coordinates is not a number
NaNIPs == {"7.7.7.7"}
\* the ip strings a request carries; the requests of CacheSpec carry those
\* of NaNIPs as well
IPs == ValidIPs \cup {"not-an-ip"}
\* the dbFile arguments: none, a readable database, an unreadable one
DbFiles == {"", "GeoLite2-City.mmdb", "missing.mmdb"}
\* the dbURL arguments: none, a database URL
DbURLs == {"", "https://download/geoip.tar.gz"}
Requests == 1..MaxRequests

VARIABLES
    dbFile,         \* NewServer's argument dbFile
    dbURL,          \* NewServer's argument dbURL, then server.dbURL
    zone,           \* the host's time zone (time.Local): its offset from UTC in hours
    phase,          \* "new" before NewServer, then "running" or "failed"
    db,             \* server.db: the active handle, NilDb when nil
    opened,         \* the handles opened so far: handle h is opened[h]
    closed,         \* closed[h]: the number of Close calls on handle h
    cache,          \* server.cache: entries, most recently used first
    cacheGen,       \* number of lru.New calls made by run
    dbGen,          \* number of assignments to server.db made by run
    cacheGet,       \* server.cacheGet: the buffered channel's content
    hpc,            \* Handle of request r: "idle", "wait" or "done"
    hip,            \* Handle of request r: its ip
    got,            \* the values request r's channel g.resp has carried
    status,         \* the status of the response to request r, 0 if none
    cpc,            \* run: "off","select","lookup","reply","close","apply","clear"
    g,              \* run: the get it is handling
    jsonData,       \* run: the bytes it is about to reply with
    found,          \* run: whether server.cache.Get found g.ip
    newDb,          \* run: the handle received from server.dbUpdate
    stale,          \* keys cached when the cache was last discarded and not looked up since
    wasStale,       \* run: whether g.ip was in stale when it was looked up
    lastEvent,      \* the event run completed last: "none", "lookup", "replace"
    recency,        \* the keys looked up with success since server.cache was created,
                    \* most recently used first, each with the bytes of its first reply
    dpc,            \* keepDbCurrent: "off", "fetch", "send" or "sleep"
    lastModified,   \* keepDbCurrent's local lastModified
    lastModifiedLoc, \* the Location that time.Time carries: its offset from UTC in hours
    fetched,        \* updateDb: db and modifiedTime returned by readDbFromWeb
    outcome,        \* updateDb: how its fetch ended, "ok", "notModified" or "error"; "none" outside updateDb
    sleepInterval,  \* updateDb's local sleepInterval, 0 outside updateDb
    remote,         \* the Last-Modified of the database behind the URL
    req,            \* Handle: the request in hand: URL path, basePath, header, RemoteAddr
    ipOfReq,        \* Handle: its local ip, as a sequence of characters
    apc,            \* Handle, up to its send: "request", then "ip" once ip is set
    dbDate,         \* server.dbDate of the HEAD-polling server
    dbDateBefore,   \* the value server.dbDate had before run's last assignment to it
    lm,             \* the HEAD-polling keepDbCurrent's local lm
    unsynced,       \* the accesses to server.dbDate that no channel operation orders yet
    raced           \* server.dbDate was read and written without an order between the two

vars == <<dbFile, dbURL, zone, phase, db, opened, closed, cache, cacheGen, dbGen,
          cacheGet, hpc, hip, got, status, cpc, g, jsonData, found, newDb,
          stale, wasStale, lastEvent, recency, dpc, lastModified, lastModifiedLoc,
          fetched, outcome,
          sleepInterval, remote, req, ipOfReq, apc,
          dbDate, dbDateBefore, lm, unsynced, raced>>

adapterVars == <<req, ipOfReq, apc>>
pollVars == <<dbDate, dbDateBefore, lm, unsynced, raced>>

serverVars == <<db, closed, cache, cacheGen, dbGen, stale, lastEvent, recency>>
handlerVars == <<hpc, hip, got, status>>
runVars == <<cpc, g, jsonData, found, newDb, wasStale>>
driverVars == <<dpc, lastModified, lastModifiedLoc, fetched, outcome, sleepInterval>>
configVars == <<dbFile, dbURL, zone, phase>>

NoGet == [ip |-> "", resp |-> 0]
NoFetch == [db |-> NilDb, modifiedTime |-> ZeroTime]


(***************************************************************************)
(* The decoder and the serializer (geoip2.Reader.City, json.Marshal), as   *)
(* lookupDB uses them.  The record a database returns for an address is    *)
(* identified by the handle it was read through and the address: every     *)
(* handle is a database of its own, so results of different handles differ.*)
(***************************************************************************)
\* net.ParseIP: nil for a string that is no IP address
ParseIP(s) == IF s \in ValidIPs \cup NaNIPs THEN s ELSE NilIP

\* server.db.City(ip): the decoder refuses a nil address
City(h, ip) ==
    IF ip = NilIP
    THEN [err |-> TRUE, geoData |-> <<>>]
    ELSE [err |-> FALSE, geoData |-> <<h, ip>>]

\* json.Marshal(geoData): the record's bytes, or an error for a record that
\* holds a value JSON has no encoding for
Marshal(geoData) ==
    IF geoData[2] \in NaNIPs
    THEN [err |-> TRUE, jsonData |-> NilBytes]
    ELSE [err |-> FALSE, jsonData |-> <<"json", geoData[1], geoData[2]>>]

\* a lookupDB without its check of server.db
lookupDBNoNilCheck(h, ip) ==
    LET r == City(h, ParseIP(ip))
    IN  IF r.err
        THEN [jsonData |-> NilBytes, err |-> TRUE]
        ELSE IF Marshal(r.geoData).err
        THEN [jsonData |-> NilBytes, err |-> TRUE]
        ELSE [jsonData |-> Marshal(r.geoData).jsonData, err |-> FALSE]

\* GeoServer.lookupDB with server.db = h
lookupDB(h, ip) ==
    IF h = NilDb
    THEN [jsonData |-> NilBytes, err |-> TRUE]
    ELSE LET r == City(h, ParseIP(ip))
         IN  IF r.err
             THEN [jsonData |-> NilBytes, err |-> TRUE]
             ELSE IF Marshal(r.geoData).err
             THEN [jsonData |-> NilBytes, err |-> TRUE]
             ELSE [jsonData |-> Marshal(r.geoData).jsonData, err |-> FALSE]

(***************************************************************************)
(* lru.Cache, a sequence of entries with the most recently used first.     *)
(***************************************************************************)
CacheKeys(c) == {c[i].key : i \in 1..Len(c)}

CacheIndex(c, k) == CHOOSE i \in 1..Len(c) : c[i].key = k

MoveToFront(c, i, e) == <<e>> \o SubSeq(c, 1, i - 1) \o SubSeq(c, i + 1, Len(c))

\* a Get that takes whatever entry is in front, whatever its key
CacheGetAnyKey(c, k) ==
    IF Len(c) > 0
    THEN [found |-> TRUE, value |-> c[1].value, cache |-> c]
    ELSE [found |-> FALSE, value |-> NilBytes, cache |-> c]

\* a Get that leaves the entry it found where it is
CacheGetNoTouch(c, k) ==
    IF k \in CacheKeys(c)
    THEN [found |-> TRUE, value |-> c[CacheIndex(c, k)].value, cache |-> c]
    ELSE [found |-> FALSE, value |-> NilBytes, cache |-> c]

\* server.cache.Get(k): the value, whether it was found, and the cache after it
CacheGet(c, k) ==
    IF k \in CacheKeys(c)
    THEN LET i == CacheIndex(c, k)
         IN  [found |-> TRUE, value |-> c[i].value, cache |-> MoveToFront(c, i, c[i])]
    ELSE [found |-> FALSE, value |-> NilBytes, cache |-> c]

\* an Add that, when the cache is full, puts the value into the oldest
\* entry and leaves that entry's key
CacheAddReusesSlot(c, k, v) ==
    IF k \in CacheKeys(c)
    THEN MoveToFront(c, CacheIndex(c, k), [key |-> k, value |-> v])
    ELSE IF Len(c) >= CacheSize
         THEN [c EXCEPT ![Len(c)] = [key |-> c[Len(c)].key, value |-> v]]
         ELSE <<[key |-> k, value |-> v]>> \o c

\* server.cache.Add(k, v): the cache after it
CacheAdd(c, k, v) ==
    IF k \in CacheKeys(c)
    THEN MoveToFront(c, CacheIndex(c, k), [key |-> k, value |-> v])
    ELSE LET c2 == <<[key |-> k, value |-> v]>> \o c
         IN  IF Len(c2) > CacheSize THEN SubSeq(c2, 1, Len(c2) - 1) ELSE c2

\* the record of uses after a lookup of k that found c in the cache or else
\* got l from lookupDB: a failed lookup leaves it, a successful one moves k
\* to the front, keeping the bytes k was first answered with
Touch(rec, k, c, l) ==
    IF ~c.found /\ l.err
    THEN rec
    ELSE IF k \in CacheKeys(rec)
         THEN MoveToFront(rec, CacheIndex(rec, k), rec[CacheIndex(rec, k)])
         ELSE <<[key |-> k, value |-> IF c.found THEN c.value ELSE l.jsonData]>> \o rec

\* a "new" cache that is the old one
NewCacheStale == cache

\* lru.New(CacheSize)
NewCache == <<>>

(***************************************************************************)
(* The file system and the remote server, as NewServer and updateDb see    *)
(* them.                                                                   *)
(***************************************************************************)
\* os.ReadFile / openDb succeed on this file only
FileReadable(f) == f = "GeoLite2-City.mmdb"

\* fileInfo.ModTime()
FileModTime(f) == 1

\* the offsets from UTC, in hours, the time zone of the host can have:
\* fileInfo.ModTime() is a time in that zone (time.Local)
Zones == {-1, 0, 1}

\* t.Format(http.TimeFormat) for a time t in the zone loc: the wall clock of
\* t in its own zone, followed by the letters GMT, given as the time the
\* receiver of the header reads
Format(t, loc) == t + loc

\* the handle the next geoip2.FromBytes returns
NextHandle == Len(opened) + 1

\* http.DefaultClient.Do fails on a URL without a scheme and host
URLUsable(u) == u # ""

\* what the body of a 200 response can be: a tar.gz holding a database file
\* under one of the two recognised names, bytes that are no tar.gz, a tar.gz
\* without such a file, a tar.gz whose database file geoip2 cannot open
Archives == {"database", "corrupt", "noDatabase", "undecodable"}

\* the results http.DefaultClient.Do can have for a GET of u whose
\* If-Modified-Since is the time ifModifiedSince, of zone loc, formatted
\* without a conversion to UTC: none (the request fails), or a response with
\* its status, whether its Last-Modified header parses, and its body.  The
\* server is one that honours the header: it answers 304 when its database
\* is not newer than the time it reads there and 200 otherwise, or fails
\* with a 500.
Responses(u, ifModifiedSince, loc) ==
    IF ~URLUsable(u)
    THEN {[sent |-> FALSE, status |-> 0, lastModifiedOK |-> FALSE, archive |-> "corrupt"]}
    ELSE {[sent |-> FALSE, status |-> 0, lastModifiedOK |-> FALSE, archive |-> "corrupt"]}
         \cup
         [sent : {TRUE},
          status : {IF remote > Format(ifModifiedSince, loc)
                    THEN StatusOK ELSE StatusNotModified,
                    StatusError},
          lastModifiedOK : BOOLEAN,
          archive : Archives]

\* readDbFromWeb, given what the request got: "ok" with a database,
\* "notModified" for errNotModified, "error" for any other error
readDbFromWeb(resp) ==
    IF ~resp.sent THEN "error"
    ELSE IF resp.status = StatusNotModified THEN "notModified"
    ELSE IF resp.status # StatusOK THEN "error"
    ELSE IF ~resp.lastModifiedOK THEN "error"
    ELSE IF resp.archive # "database" THEN "error"
    ELSE "ok"

\* the outcomes readDbFromWeb(u, ifModifiedSince) can have
FetchOutcomes(u, ifModifiedSince, loc) ==
    {readDbFromWeb(resp) : resp \in Responses(u, ifModifiedSince, loc)}

(***************************************************************************)
(* Handle, up to its send: the ip of a request.  The strings of a request  *)
(* are sequences of characters, so that Replace, Split and TrimSpace do    *)
(* what the strings package does.                                          *)
(***************************************************************************)
NoRequest == [path |-> <<>>, basePath |-> <<>>, forwardedFor |-> <<>>, remoteAddr |-> <<>>]

\* the paths main registers Handle under
LookupDir == <<"/", "l", "o", "o", "k", "u", "p", "/">>
LookupExact == <<"/", "l", "o", "o", "k", "u", "p">>

\* req.URL.Path: no remainder, one address, a list of two
Paths ==
    { LookupDir,
      LookupExact,
      <<"/", "l", "o", "o", "k", "u", "p", "/", "8", ".", "8", ".", "8", ".", "8">>,
      <<"/", "l", "o", "o", "k", "u", "p", "/", "8", ".", "8", ".", "8", ".", "8", ",", " ", "9", ".", "9", ".", "9", ".", "9">> }

\* the basePath main passes for a path
BasePathFor(path) == IF path = LookupExact THEN LookupExact ELSE LookupDir

\* req.Header.Get("X-Forwarded-For"): absent, one address, lists, entries
\* with blanks, form feeds or a no-break space around them
ForwardedFors ==
    { <<>>,
      <<"2", "0", "3", ".", "0", ".", "1", "1", "3", ".", "5">>,
      <<"2", "0", "3", ".", "0", ".", "1", "1", "3", ".", "5", ",", " ", "1", "0", ".", "0", ".", "0", ".", "1">>,
      <<" ", "2", "0", "3", ".", "0", ".", "1", "1", "3", ".", "5", " ", ",", "1", "0", ".", "0", ".", "0", ".", "1">>,
      <<"1", "0", ".", "0", ".", "0", ".", "1", ",", "2", "0", "3", ".", "0", ".", "1", "1", "3", ".", "5">>,
      <<"\f", "2", "0", "3", ".", "0", ".", "1", "1", "3", ".", "5", "\f", ",", "1", "0", ".", "0", ".", "0", ".", "1">>,
      <<"U+00A0", "2", "0", "3", ".", "0", ".", "1", "1", "3", ".", "5", "U+000B", ",", "1", "0", ".", "0", ".", "0", ".", "1">> }

\* req.RemoteAddr, as net/http sets it: host:port, [host]:port for IPv6
RemoteAddrs ==
    { <<"1", "9", "8", ".", "5", "1", ".", "1", "0", "0", ".", "7", ":", "4", "7", "1", "1">>,
      <<"1", "0", ".", "0", ".", "0", ".", "1", ":", "8", "0">>,
      <<"[", "2", "0", "0", "1", ":", "d", "b", "8", ":", ":", "1", "]", ":", "4", "7", "1", "1">> }

HttpRequests ==
    { [path |-> p, basePath |-> BasePathFor(p), forwardedFor |-> f, remoteAddr |-> a] :
          p \in Paths, f \in ForwardedFors, a \in RemoteAddrs }

\* sub occurs in s at position i
OccursAt(s, sub, i) ==
    /\ i + Len(sub) - 1 <= Len(s)
    /\ SubSeq(s, i, i + Len(sub) - 1) = sub

\* strings.Index(s, sub), counted from 1; 0 when sub does not occur
Index(s, sub) ==
    IF \E i \in 1..(Len(s) + 1) : OccursAt(s, sub, i)
    THEN CHOOSE i \in 1..(Len(s) + 1) :
             OccursAt(s, sub, i) /\ \A j \in 1..(i - 1) : ~OccursAt(s, sub, j)
    ELSE 0

\* strings.Replace(s, old, "", 1)
Replace(s, old) ==
    LET i == Index(s, old)
    IN  IF i = 0 THEN s ELSE SubSeq(s, 1, i - 1) \o SubSeq(s, i + Len(old), Len(s))

\* strings.Split(s, sep) for a non-empty sep
RECURSIVE Split(_, _)
Split(s, sep) ==
    LET i == Index(s, sep)
    IN  IF i = 0
        THEN <<s>>
        ELSE <<SubSeq(s, 1, i - 1)>> \o Split(SubSeq(s, i + Len(sep), Len(s)), sep)

\* the characters unicode.IsSpace accepts, which strings.TrimSpace trims: a
\* character TLA+ has no escape for is the one-element string of its code
\* point
WhiteSpace ==
    {"\t", "\n", "U+000B", "\f", "\r", " ", "U+0085", "U+00A0", "U+1680",
     "U+2000", "U+2001", "U+2002", "U+2003", "U+2004", "U+2005", "U+2006",
     "U+2007", "U+2008", "U+2009", "U+200A", "U+2028", "U+2029", "U+202F",
     "U+205F", "U+3000"}

\* strings.TrimSpace, its left end

RECURSIVE TrimLeft(_)
TrimLeft(s) == IF s # <<>> /\ Head(s) \in WhiteSpace THEN TrimLeft(Tail(s)) ELSE s

\* strings.TrimSpace, its right end
RECURSIVE TrimRight(_)
TrimRight(s) ==
    IF s # <<>> /\ s[Len(s)] \in WhiteSpace THEN TrimRight(SubSeq(s, 1, Len(s) - 1)) ELSE s

\* strings.TrimSpace(s)
TrimSpace(s) == TrimRight(TrimLeft(s))

clientIpFor(q) ==
    LET clientIp == IF q.forwardedFor = <<>>
                    THEN Split(q.remoteAddr, <<":">>)[1]
                    ELSE q.forwardedFor
        ips == Split(clientIp, <<",">>)
    IN  TrimSpace(ips[1])

\* Handle's ip: the path without basePath, else clientIpFor(req)
IpOfHandle(q) ==
    LET path == Replace(q.path, q.basePath)
    IN  IF path = <<>> THEN clientIpFor(q) ELSE path

(***************************************************************************)
(* Initial state: NewServer has not been called; its arguments are chosen. *)
(***************************************************************************)
Init ==
    /\ dbFile \in DbFiles
    /\ zone \in Zones          \* the host is on UTC, east or west of it
    /\ dbURL \in DbURLs
    /\ phase = "new"
    /\ db = NilDb
    /\ opened = <<>>
    /\ closed = <<>>
    /\ cache = <<>>
    /\ cacheGen = 0
    /\ dbGen = 0
    /\ cacheGet = <<>>
    /\ hpc = [r \in Requests |-> "idle"]
    /\ hip = [r \in Requests |-> ""]
    /\ got = [r \in Requests |-> <<>>]
    /\ status = [r \in Requests |-> 0]
    /\ cpc = "off"
    /\ g = NoGet
    /\ jsonData = NilBytes
    /\ found = FALSE
    /\ newDb = NilDb
    /\ stale = {}
    /\ wasStale = FALSE
    /\ lastEvent = "none"
    /\ recency = <<>>
    /\ dpc = "off"
    /\ lastModified = ZeroTime
    /\ lastModifiedLoc = UTC
    /\ fetched = NoFetch
    /\ outcome = "none"
    /\ sleepInterval = 0
    /\ remote = 1
    /\ req = NoRequest
    /\ ipOfReq = <<>>
    /\ apc = "off"
    /\ dbDate = ZeroTime
    /\ dbDateBefore = ZeroTime
    /\ lm = ZeroTime
    /\ unsynced = {}
    /\ raced = FALSE

(***************************************************************************)
(* NewServer(dbFile, dbURL)                                                *)
(***************************************************************************)
NewServer ==
    /\ phase = "new"
    /\ cacheGet' = <<>>
    /\ cache' = <<>>
    /\ IF dbFile # "" /\ ~FileReadable(dbFile)
       THEN \* readDbFromFile failed: return nil, err; no goroutine is started
            /\ phase' = "failed"
            /\ UNCHANGED <<db, opened, closed, lastModified, lastModifiedLoc, cpc, dpc>>
       ELSE /\ IF dbFile # ""
               THEN /\ db' = NextHandle
                    /\ opened' = Append(opened, [from |-> "file", modified |-> FileModTime(dbFile)])
                    /\ closed' = Append(closed, 0)
                    /\ lastModified' = FileModTime(dbFile)
                    /\ lastModifiedLoc' = zone
               ELSE \* the fetch from dbURL is commented out: server.db stays nil
                    /\ UNCHANGED <<db, opened, closed, lastModified, lastModifiedLoc>>
            /\ cpc' = "select"          \* go server.run()
            /\ dpc' = "fetch"           \* go server.keepDbCurrent(lastModified)
            /\ phase' = "running"
    /\ UNCHANGED <<adapterVars, pollVars, dbFile, dbURL, zone, cacheGen, recency, dbGen, stale, lastEvent, handlerVars,
                   g, jsonData, found, newDb, wasStale,
                   fetched, outcome, sleepInterval, remote>>

(***************************************************************************)
(* Handle: one goroutine per request.  It sends its get on cacheGet and    *)
(* then waits on g.resp; requests are numbered in the order of their send. *)
(***************************************************************************)
\* The valid addresses are interchangeable (ParseIP, City and the cache treat
\* them alike), so requests name them in the order of ValidIPSeq: a request
\* carries the invalid string, an address an earlier request carried, or the
\* first address no request has carried yet.
IPsToAsk ==
    LET asked == {hip[r] : r \in DOMAIN hip} \cap ValidIPs
    IN  ((IPs \cup NaNIPs) \ ValidIPs) \cup
        {ValidIPSeq[i] : i \in {j \in 1..Len(ValidIPSeq) : j <= Cardinality(asked) + 1}}

HandleSend(r, ip) ==
    /\ phase = "running"
    /\ hpc[r] = "idle"
    /\ ip \in IPsToAsk
    /\ IF r = 1 THEN TRUE ELSE hpc[r - 1] # "idle"
    /\ Len(cacheGet) < CacheGetCap
    /\ hip' = [hip EXCEPT ![r] = ip]
    /\ cacheGet' = Append(cacheGet, [ip |-> ip, resp |-> r])
    /\ hpc' = [hpc EXCEPT ![r] = "wait"]
    /\ UNCHANGED <<adapterVars, pollVars, configVars, serverVars, opened, got, status, runVars, driverVars, remote>>

(***************************************************************************)
(* run: the select, then the steps of the case taken.                      *)
(***************************************************************************)
\* a run that takes no get while the driver sleeps
RunRecvGetWaitsForDriver ==
    /\ cpc = "select"
    /\ cacheGet # <<>>
    /\ dpc # "sleep"
    /\ g' = Head(cacheGet)
    /\ cacheGet' = Tail(cacheGet)
    /\ cpc' = "lookup"
    /\ UNCHANGED <<adapterVars, pollVars, configVars, serverVars, opened, handlerVars, jsonData, found, newDb,
                   wasStale, driverVars, remote>>

\* case g := <-server.cacheGet
RunRecvGet ==
    /\ cpc = "select"
    /\ cacheGet # <<>>
    /\ g' = Head(cacheGet)
    /\ cacheGet' = Tail(cacheGet)
    /\ cpc' = "lookup"
    /\ UNCHANGED <<adapterVars, pollVars, configVars, serverVars, opened, handlerVars, jsonData, found, newDb,
                   wasStale, driverVars, remote>>

\* a lookup that adds to the cache whatever lookupDB returned, error or not
RunLookupCacheAll ==
    /\ cpc = "lookup"
    /\ LET c == CacheGet(cache, g.ip)
           l == lookupDB(db, g.ip)
       IN  IF c.found
           THEN /\ jsonData' = c.value
                /\ cache' = c.cache
           ELSE /\ jsonData' = l.jsonData
                /\ cache' = CacheAdd(cache, g.ip, l.jsonData)
    /\ found' = CacheGet(cache, g.ip).found
    /\ wasStale' = (g.ip \in stale)
    /\ stale' = stale \ {g.ip}
    /\ recency' = Touch(recency, g.ip, CacheGet(cache, g.ip), lookupDB(db, g.ip))
    /\ cpc' = "reply"
    /\ UNCHANGED <<adapterVars, pollVars, configVars, db, closed, cacheGen, dbGen, lastEvent, opened, cacheGet,
                   handlerVars, g, newDb, driverVars, remote>>

\* server.cache.Get(g.ip), and on a miss server.lookupDB(g.ip) and server.cache.Add
RunLookup ==
    /\ cpc = "lookup"
    /\ LET c == CacheGet(cache, g.ip)
           l == lookupDB(db, g.ip)
       IN  IF c.found
           THEN /\ jsonData' = c.value
                /\ cache' = c.cache
           ELSE /\ jsonData' = l.jsonData
                /\ cache' = IF l.err THEN cache ELSE CacheAdd(cache, g.ip, l.jsonData)
    /\ found' = CacheGet(cache, g.ip).found
    /\ wasStale' = (g.ip \in stale)
    /\ stale' = stale \ {g.ip}
    /\ recency' = Touch(recency, g.ip, CacheGet(cache, g.ip), lookupDB(db, g.ip))
    /\ cpc' = "reply"
    /\ UNCHANGED <<adapterVars, pollVars, configVars, db, closed, cacheGen, dbGen, lastEvent, opened, cacheGet,
                   handlerVars, g, newDb, driverVars, remote>>

\* a run that sends on g.resp only when it has bytes, and goes back to its
\* select without a send when the lookup failed
ReplyOnSuccessOnly ==
    /\ cpc = "reply"
    /\ hpc[g.resp] = "wait"
    /\ IF jsonData = NilBytes
       THEN UNCHANGED <<got, status, hpc>>
       ELSE /\ got' = [got EXCEPT ![g.resp] = Append(@, jsonData)]
            /\ status' = [status EXCEPT ![g.resp] = StatusOK]
            /\ hpc' = [hpc EXCEPT ![g.resp] = "done"]
    /\ cpc' = "select"
    /\ lastEvent' = "lookup"
    /\ g' = NoGet
    /\ jsonData' = NilBytes
    /\ found' = FALSE
    /\ wasStale' = FALSE
    /\ UNCHANGED <<adapterVars, pollVars, configVars, db, closed, cache, cacheGen, recency, dbGen, stale, opened, cacheGet,
                   hip, newDb, driverVars, remote>>

\* g.resp <- jsonData, received by Handle's jsonData := <-g.resp, which then
\* writes its response
Reply ==
    /\ cpc = "reply"
    /\ hpc[g.resp] = "wait"
    /\ got' = [got EXCEPT ![g.resp] = Append(@, jsonData)]
    /\ status' = [status EXCEPT ![g.resp] =
                     IF jsonData = NilBytes THEN StatusError ELSE StatusOK]
    /\ hpc' = [hpc EXCEPT ![g.resp] = "done"]
    /\ cpc' = "select"
    /\ lastEvent' = "lookup"
    /\ g' = NoGet
    /\ jsonData' = NilBytes
    /\ found' = FALSE
    /\ wasStale' = FALSE
    /\ UNCHANGED <<adapterVars, pollVars, configVars, db, closed, cache, cacheGen, recency, dbGen, stale, opened, cacheGet,
                   hip, newDb, driverVars, remote>>

\* an update that applies the new handle without closing the old one
RunRecvUpdateSkipClose ==
    /\ cpc = "select"
    /\ dpc = "send"
    /\ newDb' = fetched.db
    /\ cpc' = "apply"
    /\ dpc' = "sleep"
    /\ UNCHANGED <<adapterVars, pollVars, configVars, serverVars, opened, cacheGet, handlerVars, g, jsonData,
                   found, wasStale, lastModified, lastModifiedLoc, fetched, outcome, sleepInterval,
                   remote>>

\* a select that takes the dbUpdate case only when no get is queued
RunRecvUpdateWhenIdle ==
    /\ cpc = "select"
    /\ dpc = "send"
    /\ cacheGet = <<>>
    /\ newDb' = fetched.db
    /\ cpc' = "close"
    /\ dpc' = "sleep"
    /\ UNCHANGED <<adapterVars, pollVars, configVars, serverVars, opened, cacheGet, handlerVars, g, jsonData,
                   found, wasStale, lastModified, lastModifiedLoc, fetched, outcome, sleepInterval,
                   remote>>

\* case db := <-server.dbUpdate, together with updateDb's server.dbUpdate <- db
RunRecvUpdate ==
    /\ cpc = "select"
    /\ dpc = "send"
    /\ newDb' = fetched.db
    /\ cpc' = "close"
    /\ dpc' = "sleep"
    /\ UNCHANGED <<adapterVars, pollVars, configVars, serverVars, opened, cacheGet, handlerVars, g, jsonData,
                   found, wasStale, lastModified, lastModifiedLoc, fetched, outcome, sleepInterval,
                   remote>>

\* a run that closes the old handle twice
RunCloseTwice ==
    /\ cpc = "close"
    /\ closed' = IF db # NilDb THEN [closed EXCEPT ![db] = @ + 2] ELSE closed
    /\ cpc' = "apply"
    /\ UNCHANGED <<adapterVars, pollVars, configVars, db, cache, cacheGen, recency, dbGen, stale, lastEvent, opened,
                   cacheGet, handlerVars, g, jsonData, found, newDb, wasStale,
                   driverVars, remote>>

\* a Close of the handle just received instead of the one in server.db
RunCloseNew ==
    /\ cpc = "close"
    /\ closed' = IF db # NilDb THEN [closed EXCEPT ![newDb] = @ + 1] ELSE closed
    /\ cpc' = "apply"
    /\ UNCHANGED <<adapterVars, pollVars, configVars, db, cache, cacheGen, recency, dbGen, stale, lastEvent, opened,
                   cacheGet, handlerVars, g, jsonData, found, newDb, wasStale,
                   driverVars, remote>>

\* if server.db != nil { server.db.Close() }
RunClose ==
    /\ cpc = "close"
    /\ closed' = IF db # NilDb THEN [closed EXCEPT ![db] = @ + 1] ELSE closed
    /\ cpc' = "apply"
    /\ UNCHANGED <<adapterVars, pollVars, configVars, db, cache, cacheGen, recency, dbGen, stale, lastEvent, opened,
                   cacheGet, handlerVars, g, jsonData, found, newDb, wasStale,
                   driverVars, remote>>

\* an update that returns to the select once the handle is installed, the
\* cache left as it is
RunApplySkipClear ==
    /\ cpc = "apply"
    /\ db' = newDb
    /\ dbGen' = dbGen + 1
    /\ newDb' = NilDb
    /\ lastEvent' = "replace"
    /\ cpc' = "select"
    /\ UNCHANGED <<adapterVars, pollVars, configVars, closed, cache, cacheGen, recency, stale, opened,
                   cacheGet, handlerVars, g, jsonData, found, wasStale,
                   driverVars, remote>>

\* an update that leaves the old handle in server.db
RunApplyKeepOld ==
    /\ cpc = "apply"
    /\ db' = db
    /\ dbGen' = dbGen + 1
    /\ cpc' = "clear"
    /\ UNCHANGED <<adapterVars, pollVars, configVars, closed, cache, cacheGen, recency, stale, lastEvent, opened,
                   cacheGet, handlerVars, g, jsonData, found, newDb, wasStale,
                   driverVars, remote>>

\* server.db = db
RunApply ==
    /\ cpc = "apply"
    /\ db' = newDb
    /\ dbGen' = dbGen + 1
    /\ cpc' = "clear"
    /\ UNCHANGED <<adapterVars, pollVars, configVars, closed, cache, cacheGen, recency, stale, lastEvent, opened,
                   cacheGet, handlerVars, g, jsonData, found, newDb, wasStale,
                   driverVars, remote>>

\* server.cache = lru.New(CacheSize)
RunClear ==
    /\ cpc = "clear"
    /\ cache' = NewCache
    /\ recency' = <<>>
    /\ cacheGen' = cacheGen + 1
    /\ stale' = stale \cup CacheKeys(cache)
    /\ lastEvent' = "replace"
    /\ newDb' = NilDb
    /\ cpc' = "select"
    /\ UNCHANGED <<adapterVars, pollVars, configVars, db, closed, dbGen, opened, cacheGet, handlerVars,
                   g, jsonData, found, wasStale, driverVars, remote>>

(***************************************************************************)
(* keepDbCurrent / updateDb                                                *)
(***************************************************************************)
\* an updateDb that also assigns the database it fetched to server.db
UpdateDbFetchInstallsItself ==
    /\ dpc = "fetch"
    /\ \E resp \in Responses(dbURL, lastModified, lastModifiedLoc) :
          /\ outcome' = readDbFromWeb(resp)
          /\ IF readDbFromWeb(resp) = "ok"
             THEN /\ opened' = Append(opened, [from |-> "web", modified |-> remote])
                  /\ closed' = Append(closed, 0)
                  /\ fetched' = [db |-> NextHandle, modifiedTime |-> remote]
                  /\ db' = NextHandle
                  /\ sleepInterval' = LongInterval
                  /\ dpc' = "send"
             ELSE /\ sleepInterval' = ShortInterval
                  /\ dpc' = "sleep"
                  /\ UNCHANGED <<opened, closed, fetched, db>>
    /\ UNCHANGED <<adapterVars, pollVars, configVars, cache, cacheGen, recency, dbGen, stale, lastEvent, cacheGet,
                   handlerVars, runVars, lastModified, lastModifiedLoc, remote>>

\* a driver that gives up at the first failed fetch
UpdateDbFetchStopOnError ==
    /\ dpc = "fetch"
    /\ \E resp \in Responses(dbURL, lastModified, lastModifiedLoc) :
          /\ outcome' = readDbFromWeb(resp)
          /\ IF readDbFromWeb(resp) = "ok"
             THEN /\ opened' = Append(opened, [from |-> "web", modified |-> remote])
                  /\ closed' = Append(closed, 0)
                  /\ fetched' = [db |-> NextHandle, modifiedTime |-> remote]
                  /\ sleepInterval' = LongInterval
                  /\ dpc' = "send"
             ELSE /\ sleepInterval' = ShortInterval
                  /\ dpc' = IF readDbFromWeb(resp) = "error" THEN "off" ELSE "sleep"
                  /\ UNCHANGED <<opened, closed, fetched>>
    /\ UNCHANGED <<adapterVars, pollVars, configVars, db, cache, cacheGen, recency, dbGen, stale, lastEvent, cacheGet,
                   handlerVars, runVars, lastModified, lastModifiedLoc, remote>>

\* an updateDb that keeps the one-hour sleepInterval when the fetch failed
UpdateDbFetchLongOnError ==
    /\ dpc = "fetch"
    /\ \E resp \in Responses(dbURL, lastModified, lastModifiedLoc) :
          /\ outcome' = readDbFromWeb(resp)
          /\ IF readDbFromWeb(resp) = "ok"
             THEN /\ opened' = Append(opened, [from |-> "web", modified |-> remote])
                  /\ closed' = Append(closed, 0)
                  /\ fetched' = [db |-> NextHandle, modifiedTime |-> remote]
                  /\ sleepInterval' = LongInterval
                  /\ dpc' = "send"
             ELSE /\ sleepInterval' = IF readDbFromWeb(resp) = "error"
                                      THEN LongInterval ELSE ShortInterval
                  /\ dpc' = "sleep"
                  /\ UNCHANGED <<opened, closed, fetched>>
    /\ UNCHANGED <<adapterVars, pollVars, configVars, db, cache, cacheGen, recency, dbGen, stale, lastEvent, cacheGet,
                   handlerVars, runVars, lastModified, lastModifiedLoc, remote>>

\* updateDb up to its return or its send: readDbFromWeb and the choice of
\* sleepInterval
UpdateDbFetch ==
    /\ dpc = "fetch"
    /\ \E resp \in Responses(dbURL, lastModified, lastModifiedLoc) :
          /\ outcome' = readDbFromWeb(resp)
          /\ IF readDbFromWeb(resp) = "ok"
             THEN /\ opened' = Append(opened, [from |-> "web", modified |-> remote])
                  /\ closed' = Append(closed, 0)
                  /\ fetched' = [db |-> NextHandle, modifiedTime |-> remote]
                  /\ sleepInterval' = LongInterval
                  /\ dpc' = "send"
             ELSE /\ sleepInterval' = ShortInterval
                  /\ dpc' = "sleep"
                  /\ UNCHANGED <<opened, closed, fetched>>
    /\ UNCHANGED <<adapterVars, pollVars, configVars, db, cache, cacheGen, recency, dbGen, stale, lastEvent, cacheGet,
                   handlerVars, runVars, lastModified, lastModifiedLoc, remote>>

\* a keepDbCurrent that forgets its lastModified unless a database came back
UpdateDbSleepForgets ==
    /\ dpc = "sleep"
    /\ sleepInterval \in {ShortInterval, LongInterval}
    /\ lastModified' = IF outcome = "ok" THEN fetched.modifiedTime ELSE ZeroTime
    /\ lastModifiedLoc' = UTC
    /\ fetched' = NoFetch
    /\ outcome' = "none"
    /\ sleepInterval' = 0
    /\ dpc' = "fetch"
    /\ UNCHANGED <<adapterVars, pollVars, configVars, serverVars, opened, cacheGet, handlerVars, runVars, remote>>

\* updateDb's deferred time.Sleep(sleepInterval), its return, and
\* keepDbCurrent's lastModified = lm when err is nil
UpdateDbSleep ==
    /\ dpc = "sleep"
    /\ sleepInterval \in {ShortInterval, LongInterval}
    /\ lastModified' = IF outcome = "ok" THEN fetched.modifiedTime ELSE lastModified
    /\ lastModifiedLoc' = IF outcome = "ok" THEN UTC ELSE lastModifiedLoc
    /\ fetched' = NoFetch
    /\ outcome' = "none"
    /\ sleepInterval' = 0
    /\ dpc' = "fetch"
    /\ UNCHANGED <<adapterVars, pollVars, configVars, serverVars, opened, cacheGet, handlerVars, runVars, remote>>

\* the publisher of the database puts a newer one behind the URL
RemotePublish ==
    /\ phase = "running"
    /\ URLUsable(dbURL)
    /\ remote < MaxRemote
    /\ remote' = remote + 1
    /\ UNCHANGED <<adapterVars, pollVars, configVars, serverVars, opened, cacheGet, handlerVars, runVars,
                   driverVars>>

Next ==
    \/ NewServer
    \/ \E r \in Requests, ip \in IPs : HandleSend(r, ip)
    \/ RunRecvGet
    \/ RunLookup
    \/ Reply
    \/ RunRecvUpdate
    \/ RunClose
    \/ RunApply
    \/ RunClear
    \/ UpdateDbFetch
    \/ UpdateDbSleep
    \/ RemotePublish

Spec == Init /\ [][Next]_vars

(***************************************************************************)
(* The same server under a client that sends one request at a time, one    *)
(* request more than above: run handles its events one by one, so the      *)
(* cache sees the lookups in the order of their sends, and a cache of      *)
(* CacheSize entries is filled, hit, overflowed and asked again for the    *)
(* key it evicted.                                                         *)
(***************************************************************************)
CacheRequests == 1..(MaxRequests + 1)

CacheInit ==
    /\ dbFile \in DbFiles
    /\ zone = UTC              \* a host on UTC
    /\ dbURL \in DbURLs
    /\ phase = "new"
    /\ db = NilDb
    /\ opened = <<>>
    /\ closed = <<>>
    /\ cache = <<>>
    /\ cacheGen = 0
    /\ dbGen = 0
    /\ cacheGet = <<>>
    /\ hpc = [r \in CacheRequests |-> "idle"]
    /\ hip = [r \in CacheRequests |-> ""]
    /\ got = [r \in CacheRequests |-> <<>>]
    /\ status = [r \in CacheRequests |-> 0]
    /\ cpc = "off"
    /\ g = NoGet
    /\ jsonData = NilBytes
    /\ found = FALSE
    /\ newDb = NilDb
    /\ stale = {}
    /\ wasStale = FALSE
    /\ lastEvent = "none"
    /\ recency = <<>>
    /\ dpc = "off"
    /\ lastModified = ZeroTime
    /\ lastModifiedLoc = UTC
    /\ fetched = NoFetch
    /\ outcome = "none"
    /\ sleepInterval = 0
    /\ remote = 1
    /\ req = NoRequest
    /\ ipOfReq = <<>>
    /\ apc = "off"
    /\ dbDate = ZeroTime
    /\ dbDateBefore = ZeroTime
    /\ lm = ZeroTime
    /\ unsynced = {}
    /\ raced = FALSE

\* Handle of a client that waits for each response before its next request
SequentialSend(r, ip) ==
    /\ \A q \in CacheRequests : q < r => hpc[q] = "done"
    /\ HandleSend(r, ip)

CacheNext ==
    \/ NewServer
    \/ \E r \in CacheRequests, ip \in IPs \cup NaNIPs : SequentialSend(r, ip)
    \/ RunRecvGet
    \/ RunLookup
    \/ Reply
    \/ RunRecvUpdate
    \/ RunClose
    \/ RunApply
    \/ RunClear
    \/ UpdateDbFetch
    \/ UpdateDbSleep
    \/ RemotePublish

CacheSpec == CacheInit /\ [][CacheNext]_vars

\* Go's select picks among its ready cases at random, so a case that is ready
\* again and again is taken; every other step of run is taken once it can be.
RunFairness ==
    /\ SF_vars(RunRecvGet)
    /\ SF_vars(RunRecvUpdate)
    /\ WF_vars(RunLookup)
    /\ WF_vars(Reply)
    /\ WF_vars(RunClose)
    /\ WF_vars(RunApply)
    /\ WF_vars(RunClear)

\* the server on a host whose zone is UTC: the zone enters the header of the
\* driver's request and nothing on the path of a get
LiveInit == Init /\ zone = UTC

LiveSpec == LiveInit /\ [][Next]_vars /\ RunFairness

(***************************************************************************)
(* Properties                                                              *)
(***************************************************************************)
\* run is in the middle of a ReplaceDatabase event
InSwap == cpc \in {"close", "apply", "clear"}

\* run is in the middle of a Lookup event
InLookup == cpc \in {"lookup", "reply"}

\* C1: a Lookup is never handled in the middle of a ReplaceDatabase: whenever
\* run is handling a get, the database and the cache it uses are a pair, the
\* n-th database installed with the n-th cache created, never the new one of
\* one with the old one of the other.
C1_LookupSeesAPair == InLookup => dbGen = cacheGen

\* a cache hit is being answered after a swap while the next handle is
\* already being offered on dbUpdate
C1_Witness == cpc = "reply" /\ found /\ dbGen = 1 /\ cacheGen = 1 /\ dpc = "send"

\* C2: between two events of run, and while it handles a Lookup, every
\* entry of the cache holds exactly what a lookup of its key against the
\* handle now in server.db returns; nothing computed against a superseded
\* handle is left.
C2_CacheOfActiveDb ==
    ~InSwap =>
        \A i \in 1..Len(cache) :
            /\ cache[i].value # NilBytes
            /\ cache[i].value = lookupDB(db, cache[i].key).jsonData

\* after a swap the cache is full again, and a key cached under the
\* superseded handle has not been asked for since
C2_Witness ==
    cpc = "select" /\ dbGen = 1 /\ db # NilDb /\ Len(cache) = CacheSize /\ stale # {}

\* C3: when run has completed a ReplaceDatabase the cache is empty and no
\* key cached before is in it until it is looked up again; the first Lookup
\* of such a key is a miss, and its reply is the record of the handle that
\* was installed, a handle that is not closed.
C3_InvalidatedBySwap ==
    /\ (cpc = "select" /\ lastEvent = "replace") => cache = <<>>
    /\ ~InSwap => stale \cap CacheKeys(cache) = {}
    /\ (cpc = "reply" /\ wasStale) =>
          /\ ~found
          /\ jsonData = Marshal(<<db, g.ip>>).jsonData
          /\ closed[db] = 0
          /\ newDb = NilDb

\* the first Lookup after a swap of a key that was cached before it
C3_Witness == cpc = "reply" /\ wasStale /\ dbGen >= 1

\* C4: whenever run is about to look an address up, server.db is nil (the
\* decoder is then not called) or a handle that has not been closed; and a
\* reply computed by the decoder comes from the handle in server.db, not closed.
C4_NoLookupOnClosedDb ==
    /\ cpc = "lookup" => (db = NilDb \/ closed[db] = 0)
    /\ (cpc = "reply" /\ ~found /\ jsonData # NilBytes) =>
          /\ jsonData[2] = db
          /\ closed[db] = 0

\* a lookup is about to be made after a handle has been closed
C4_Witness ==
    /\ cpc = "lookup"
    /\ db # NilDb
    /\ g.ip \notin CacheKeys(cache)
    /\ \E h \in 1..Len(closed) : closed[h] > 0

\* C5: the reply channel of a request carries at most one value, none
\* before the request is done, and the value is nil or the bytes of a
\* record for the ip of that very request.
C5_OneReplyForOwnIp ==
    \A r \in Requests :
        /\ Len(got[r]) <= 1
        /\ hpc[r] # "done" => got[r] = <<>>
        /\ hpc[r] = "done" =>
              /\ Len(got[r]) = 1
              /\ \/ got[r][1] = NilBytes
                 \/ /\ got[r][1][1] = "json"
                    /\ got[r][1][3] = hip[r]

\* one request was answered nil, another with bytes, a third with a cache hit
\* for the same ip as the second
C5_Witness ==
    \E r1, r2, r3 \in Requests :
        /\ r2 < r3
        /\ got[r1] = <<NilBytes>>
        /\ Len(got[r2]) = 1 /\ got[r2][1] # NilBytes
        /\ got[r3] = got[r2]

\* some step of run can be taken
RunCanStep ==
    ENABLED (RunRecvGet \/ RunLookup \/ Reply \/ RunRecvUpdate \/ RunClose \/ RunApply \/ RunClear)

\* no goroutine waits on a channel that nobody will serve: while a request
\* waits for its reply or the driver waits to hand over a handle, run can
\* take a step, and run's send on g.resp always finds its receiver
NoDeadlock ==
    /\ (\E r \in Requests : hpc[r] = "wait") => RunCanStep
    /\ dpc = "send" => RunCanStep
    /\ cpc = "reply" => ENABLED Reply

\* C6: with run scheduled fairly, every request that has sent its get on
\* cacheGet gets its reply, whatever the driver does meanwhile, and no
\* state is a deadlock of handlers, run and driver.
C6_EveryGetAnswered ==
    /\ \A r \in Requests : (hpc[r] = "wait") ~> (hpc[r] = "done")
    /\ []NoDeadlock

\* a request waits for a failing lookup behind another get while the cache
\* is being replaced and the driver sleeps
C6_Witness ==
    /\ cpc = "clear"
    /\ dpc = "sleep"
    /\ Len(cacheGet) = 2
    /\ cacheGet[2].ip = "not-an-ip"

\* the handles that have been in server.db and are no longer
Superseded == {h \in 1..Len(opened) : h # db /\ h # newDb /\ h \notin {fetched.db}}

\* C7 as stated: the old handle is closed only after the new one has been
\* installed, so the handle in server.db is never a closed one.
C7_CloseAfterInstall == db # NilDb => closed[db] = 0

\* C7 amended: run closes the old handle before it installs the new one, in
\* the same ReplaceDatabase event: the handle in server.db is a closed one
\* only between run's Close and its assignment to server.db, where it has
\* been closed once and the handle about to be installed is open; when the
\* new handle is installed every handle it superseded has been closed.
C7_CloseBeforeInstallInOneEvent ==
    /\ (db # NilDb /\ closed[db] > 0) => cpc = "apply"
    /\ cpc = "apply" =>
          /\ db # NilDb => closed[db] = 1
          /\ newDb # NilDb /\ closed[newDb] = 0
    /\ cpc \in {"clear", "select", "lookup", "reply"} =>
          \A h \in Superseded : closed[h] = 1

\* the old handle is closed and still in server.db, the new one not yet installed
C7_Witness == cpc = "apply" /\ db # NilDb /\ closed[db] = 1 /\ newDb # db

\* C8 as stated: once NewServer has returned a server, a database is installed.
C8_StartedWithDatabase == phase = "running" => db # NilDb

\* C9 as stated: without a database URL the driver is disabled: it issues
\* no fetch, so no fetch has an outcome, it does not sleep between polls and
\* it offers nothing on dbUpdate.
C9_NoURLNoDriver ==
    (phase = "running" /\ dbURL = "") =>
        (outcome = "none" /\ dpc \notin {"sleep", "send"})

\* what run does with a get whose lookup fails
FailedLookupStep ==
    (cpc = "lookup" /\ cpc' # "lookup"
        /\ g.ip \notin CacheKeys(cache) /\ lookupDB(db, g.ip).err) =>
        /\ cpc' = "reply"
        /\ jsonData' = NilBytes
        /\ cache' = cache
        /\ db' = db
        /\ closed' = closed

\* what the handler of a request got is what the database in server.db at
\* the time of the reply holds for its ip, whatever was asked before
AnsweredFromDb(r) ==
    \/ got[r] = <<NilBytes>> /\ status[r] = StatusError
    \/ /\ hip[r] \in ValidIPs
       /\ status[r] = StatusOK
       /\ \E h \in 1..Len(opened) : got[r] = <<Marshal(<<h, hip[r]>>).jsonData>>

\* C10: a Lookup that fails, in the decoder or in the serializer, is answered
\* nil and changes neither the cache nor server.db; run goes on: nil is
\* never cached, nor is a key whose lookup fails; a valid address asked while
\* a database is installed is answered with that database's record, whether
\* or not a failed request came before, and the failing request gets a nil
\* reply and status 500.
C10_FailedLookupHarmless ==
    /\ [][FailedLookupStep]_vars
    /\ [](\A i \in 1..Len(cache) :
              cache[i].value # NilBytes /\ cache[i].key \in ValidIPs)
    /\ [](cpc = "reply" =>
              IF g.ip \in ValidIPs /\ db # NilDb
              THEN jsonData = Marshal(<<db, g.ip>>).jsonData
              ELSE jsonData = NilBytes)
    /\ [](\A r \in DOMAIN hpc : hpc[r] = "done" => AnsweredFromDb(r))

\* on a server started with a database, a valid address is answered with
\* bytes right after "not-an-ip", which the decoder refuses, and an address
\* whose record the serializer refuses, were each answered nil
C10_Witness ==
    \E r \in DOMAIN hpc :
        /\ r > 2
        /\ FileReadable(dbFile)
        /\ hip[r - 2] = "not-an-ip"
        /\ got[r - 2] = <<NilBytes>> /\ status[r - 2] = StatusError
        /\ hip[r - 1] \in NaNIPs
        /\ got[r - 1] = <<NilBytes>> /\ status[r - 1] = StatusError
        /\ hip[r] \in ValidIPs /\ hpc[r] = "done" /\ status[r] = StatusOK
        /\ got[r] = <<Marshal(<<db, hip[r]>>).jsonData>>

\* C11: while server.db is nil every Lookup is answered nil (the decoder
\* has no handle to be called on), nothing is cached and no request has
\* been answered with bytes; when the server was started without a file, a
\* request answered with bytes was answered after a ReplaceDatabase.
C11_NoDatabaseNoAnswer ==
    /\ db = NilDb =>
          /\ cache = <<>>
          /\ recency = <<>>
          /\ cpc = "reply" => jsonData = NilBytes
          /\ \A r \in Requests :
                hpc[r] = "done" => (got[r] = <<NilBytes>> /\ status[r] = StatusError)
    /\ \A r \in Requests :
          (dbFile = "" /\ hpc[r] = "done" /\ got[r] # <<NilBytes>>) =>
              /\ dbGen >= 1
              /\ got[r][1][2] \in 1..Len(opened)
              /\ opened[got[r][1][2]].from = "web"

\* without a database a valid address was answered nil with status 500
\* while another request waits and the first handle is on its way
C11_Witness ==
    /\ db = NilDb
    /\ dpc = "send"
    /\ \E r \in Requests :
          hip[r] \in ValidIPs /\ got[r] = <<NilBytes>> /\ status[r] = StatusError
    /\ \E r \in Requests : hpc[r] = "wait"

\* the step of the driver that ends its fetch
DriverFetchStep == dpc = "fetch" /\ dpc' # "fetch"

\* the step of the driver that ends its sleep and starts the next iteration
DriverSleepStep == dpc = "sleep" /\ dpc' # "sleep"

\* C12: an iteration of the driver whose fetch returned "not modified"
\* never reaches the send on dbUpdate, and both of its steps (the fetch, the
\* sleep and return) leave server.db, the cache, the handles and the
\* driver's lastModified as they were.
C12_NotModifiedChangesNothing ==
    /\ [](outcome = "notModified" =>
             (dpc = "sleep" /\ fetched = NoFetch /\ sleepInterval = ShortInterval))
    /\ [][ /\ (DriverFetchStep /\ outcome' = "notModified") =>
                /\ dpc' = "sleep"
                /\ UNCHANGED <<serverVars, opened, newDb, lastModified, lastModifiedLoc, cacheGet>>
           /\ (DriverSleepStep /\ outcome = "notModified") =>
                /\ dpc' = "fetch"
                /\ UNCHANGED <<serverVars, opened, newDb, lastModified, lastModifiedLoc, cacheGet>>
         ]_vars

\* a "not modified" came back while a database is active, a result is cached
\* and the driver holds the file's modification time
C12_Witness ==
    /\ outcome = "notModified"
    /\ db # NilDb
    /\ cache # <<>>
    /\ lastModified # ZeroTime

\* the step in which run receives the handle the driver sends
HandOverStep == dpc = "send" /\ dpc' # "send"

\* C13: the driver sleeps once per iteration, after its fetch and, when a
\* database came back, after run has received it; the sleep is the long
\* interval exactly when a handle was fetched and handed over, and the short
\* one after "not modified" and after an error.
C13_OneSleepByOutcome ==
    /\ [](/\ dpc = "sleep" =>
                /\ outcome \in {"ok", "notModified", "error"}
                /\ sleepInterval = IF outcome = "ok" THEN LongInterval ELSE ShortInterval
                /\ (sleepInterval = LongInterval) <=>
                       (fetched # NoFetch /\ fetched.db \in {newDb, db})
          /\ dpc = "send" => (outcome = "ok" /\ fetched # NoFetch /\ fetched.db \notin {newDb, db})
          /\ dpc = "fetch" => (outcome = "none" /\ sleepInterval = 0))
    /\ [][ /\ DriverFetchStep =>
                (dpc' = IF outcome' = "ok" THEN "send" ELSE "sleep")
           /\ HandOverStep => (dpc' = "sleep" /\ newDb' = fetched.db /\ cpc = "select")
           /\ DriverSleepStep => dpc' = "fetch"
         ]_vars

\* the driver sleeps the long interval and run has installed the handle
C13_Witness ==
    /\ dpc = "sleep"
    /\ sleepInterval = LongInterval
    /\ db = fetched.db
    /\ cpc = "select"

\* the handle run received last: the one it is installing, else server.db
LatestHandle == IF newDb # NilDb THEN newDb ELSE db

\* the modification time a handle was opened with; the zero time for nil
FreshnessOf(h) == IF h = NilDb THEN ZeroTime ELSE opened[h].modified

\* C14: whenever the driver is about to fetch, the time its If-Modified-Since
\* tells the remote is the modification time of the database run received
\* last (the file's when none came from the web, the zero time when there is
\* no database at all); lastModified changes only at the end of an iteration
\* that handed a database over, to the Last-Modified of that database; a
\* fetch with the remote's own timestamp cannot return a database, returns
\* "not modified" whenever the remote answers, and is followed by the short
\* sleep.  The code fails it on a host whose zone is not UTC: the file's
\* modification time is formatted as its local wall clock and labelled GMT.
C14_TimestampOfLatestDatabase ==
    /\ []((phase = "running" /\ dpc = "fetch") =>
             /\ Format(lastModified, lastModifiedLoc) = FreshnessOf(LatestHandle)
             /\ (db = NilDb /\ newDb = NilDb) => lastModified = ZeroTime
             /\ (URLUsable(dbURL) /\ lastModified = remote) =>
                   /\ "ok" \notin FetchOutcomes(dbURL, lastModified, lastModifiedLoc)
                   /\ \A resp \in Responses(dbURL, lastModified, lastModifiedLoc) :
                         (resp.sent /\ resp.status # StatusError) =>
                             readDbFromWeb(resp) = "notModified")
    /\ [][ /\ (phase = "running" /\ ~DriverSleepStep) => lastModified' = lastModified
           /\ (DriverSleepStep /\ outcome # "ok") => lastModified' = lastModified
           /\ (DriverSleepStep /\ outcome = "ok") =>
                  /\ lastModified' = FreshnessOf(fetched.db)
                  /\ fetched.db = LatestHandle
           /\ (DriverFetchStep /\ lastModified = remote) =>
                  (dpc' = "sleep" /\ sleepInterval' = ShortInterval)
         ]_vars

\* the ways a fetch fails: no response, a status other than 200 and 304, a
\* 200 whose Last-Modified does not parse or whose archive yields no database
FailedResponse(resp) ==
    \/ ~resp.sent
    \/ resp.status \notin {StatusOK, StatusNotModified}
    \/ resp.status = StatusOK /\ (~resp.lastModifiedOK \/ resp.archive # "database")

\* C15: every failed fetch is reported as an error, after which the driver
\* is at its short sleep with no handle in hand and goes on to the next
\* fetch: the driver of a running server is never stopped, and neither step
\* of a failed iteration changes the server's database, cache, handles,
\* queued requests, replies or the driver's lastModified.
C15_FetchErrorsStayInDriver ==
    /\ [](/\ \A resp \in Responses(dbURL, lastModified, lastModifiedLoc) :
                FailedResponse(resp) => readDbFromWeb(resp) = "error"
          /\ phase = "running" => dpc \in {"fetch", "send", "sleep"}
          /\ outcome = "error" =>
                (dpc = "sleep" /\ sleepInterval = ShortInterval /\ fetched = NoFetch)
          /\ dpc = "sleep" => ENABLED UpdateDbSleep
          /\ dpc = "fetch" => ENABLED UpdateDbFetch)
    /\ [][ /\ (DriverFetchStep /\ outcome' = "error") =>
                UNCHANGED <<serverVars, opened, cacheGet, handlerVars, runVars, lastModified, lastModifiedLoc>>
           /\ (DriverSleepStep /\ outcome = "error") =>
                /\ dpc' = "fetch"
                /\ UNCHANGED <<serverVars, opened, cacheGet, handlerVars, runVars, lastModified, lastModifiedLoc>>
         ]_vars

\* a fetch from a usable URL failed while one request has its bytes and
\* another one waits for its reply
C15_Witness ==
    /\ outcome = "error"
    /\ URLUsable(dbURL)
    /\ \E r \in Requests : hpc[r] = "done" /\ got[r] # <<NilBytes>>
    /\ \E r \in Requests : hpc[r] = "wait"

\* a step of run: its program counter moves
RunStep == cpc # "off" /\ cpc' # cpc

\* C16: once the loops run, server.db, the cache and the close count of
\* every existing handle change only in steps of run; a Handle goroutine
\* only appends its get to cacheGet and takes its reply, the driver only
\* opens new handles and sends them, and the handle it sends is an open
\* one, never closed and not the active one.
C16_OnlyRunOwnsDbAndCache ==
    /\ [](dpc = "send" =>
             /\ fetched.db \in 1..Len(opened)
             /\ opened[fetched.db].from = "web"
             /\ closed[fetched.db] = 0
             /\ fetched.db # db)
    /\ [][ /\ (phase = "running" /\ ~RunStep) =>
                /\ UNCHANGED <<db, cache>>
                /\ \A h \in 1..Len(closed) : closed'[h] = closed[h]
           /\ (phase = "running" /\ cacheGet' # cacheGet /\ Len(cacheGet') > Len(cacheGet)) =>
                /\ \E r \in Requests : hpc[r] = "idle" /\ hpc'[r] = "wait"
                /\ UNCHANGED <<serverVars, opened, runVars, driverVars>>
           /\ HandOverStep =>
                /\ newDb' = fetched.db
                /\ UNCHANGED <<serverVars, opened, cacheGet, handlerVars>>
         ]_vars

\* run has received a handle from the driver while a database is active,
\* a result is cached and a request is queued
C16_Witness ==
    /\ cpc = "close"
    /\ newDb # NilDb
    /\ db # NilDb
    /\ cache # <<>>
    /\ cacheGet # <<>>

\* the handles that are open: opened and never closed
OpenHandles == {h \in 1..Len(opened) : closed[h] = 0}

\* C17 as stated: in every state the handle in server.db is not closed,
\* every superseded handle has been closed exactly once and no handle has
\* been closed twice.
C17_ActiveNeverClosed ==
    /\ db \in {NilDb} \cup 1..Len(opened)
    /\ db # NilDb => db \in OpenHandles
    /\ \A h \in Superseded : closed[h] = 1
    /\ \A h \in 1..Len(opened) : closed[h] <= 1

\* C17 amended: server.db holds at most one handle, which is open in every
\* state but the one between run's Close and its assignment to server.db;
\* every superseded handle has been closed exactly once, no handle has been
\* closed twice, and the only open handles are the active one, the one run
\* is installing and the one the driver is about to send.
C17_OneActiveOthersClosedOnce ==
    /\ db \in {NilDb} \cup 1..Len(opened)
    /\ (db # NilDb /\ cpc # "apply") => db \in OpenHandles
    /\ \A h \in Superseded : closed[h] = 1
    /\ \A h \in 1..Len(opened) : closed[h] <= 1
    /\ OpenHandles \subseteq {db, newDb, fetched.db}
    /\ (1..Len(opened)) \ OpenHandles \subseteq
           Superseded \cup (IF cpc = "apply" THEN {db} ELSE {})

\* a handle has been superseded and closed, its successor is active and open
C17_Witness ==
    /\ Superseded # {}
    /\ db # NilDb
    /\ closed[db] = 0
    /\ cpc = "select"

\* the driver is inside readDbFromWeb (request, download, openDb) or asleep
DriverBusy == dpc \in {"fetch", "sleep"}

\* C20: whatever the driver does, run can take the step it is at: receive a
\* queued get, look it up, reply; while the driver fetches or sleeps run
\* cannot be drawn into a swap, and the driver's fetch and sleep steps
\* change nothing run reads; the one step the two share is the hand-over,
\* which run takes at its select and which moves the driver on to its sleep.
C20_DriverNeverBlocksRun ==
    /\ [](/\ (cpc = "select" /\ cacheGet # <<>>) => ENABLED RunRecvGet
          /\ cpc = "lookup" => ENABLED RunLookup
          /\ cpc = "reply" => ENABLED Reply
          /\ cpc = "close" => ENABLED RunClose
          /\ cpc = "apply" => ENABLED RunApply
          /\ cpc = "clear" => ENABLED RunClear
          /\ DriverBusy => ~ENABLED RunRecvUpdate)
    /\ [][ /\ (DriverFetchStep \/ DriverSleepStep) =>
                UNCHANGED <<db, cache, cacheGet, handlerVars, runVars>>
           /\ (RunStep /\ dpc' # dpc) => (HandOverStep /\ cpc = "select" /\ cpc' = "close")
         ]_vars

\* a get is queued at run's select while the driver sleeps after a failed fetch
C20_Witness ==
    /\ cpc = "select"
    /\ cacheGet # <<>>
    /\ dpc = "sleep"
    /\ outcome = "error"
    /\ \E r \in Requests : hpc[r] = "done"

\* the keys of a cache or of the record of uses, in their order
KeySeq(c) == [i \in 1..Len(c) |-> c[i].key]

\* the step in which run looks a get up
LookupStep == cpc = "lookup" /\ cpc' = "reply"

\* the least recently used of the keys in the cache, by the record of uses
LeastRecentlyUsed ==
    recency[CHOOSE i \in 1..Len(recency) :
               /\ recency[i].key \in CacheKeys(cache)
               /\ \A j \in (i + 1)..Len(recency) : recency[j].key \notin CacheKeys(cache)].key

\* C18: the cache never holds more than CacheSize entries nor one key
\* twice; it holds the CacheSize most recently used keys (used by a hit or
\* an insert) since the last swap, all of them while they are no more than
\* CacheSize, each with the bytes first computed for it; a successful
\* lookup that misses a full cache removes exactly the least recently used
\* key and adds its own, below capacity it only adds its own, and a hit or
\* a failed lookup leaves the keys as they are.
C18_CacheBoundedLRU ==
    /\ [](/\ Len(cache) <= CacheSize
          /\ Cardinality(CacheKeys(cache)) = Len(cache)
          /\ KeySeq(cache) = SubSeq(KeySeq(recency), 1, Len(cache))
          /\ Len(cache) = IF Len(recency) < CacheSize THEN Len(recency) ELSE CacheSize
          /\ Len(recency) <= CacheSize =>
                \A i \in 1..Len(recency) :
                    CacheGet(cache, recency[i].key).found)
    /\ [][ LookupStep =>
             IF g.ip \in CacheKeys(cache) \/ lookupDB(db, g.ip).err
             THEN CacheKeys(cache') = CacheKeys(cache)
             ELSE IF Len(cache) < CacheSize
                  THEN CacheKeys(cache') = CacheKeys(cache) \cup {g.ip}
                  ELSE /\ CacheKeys(cache') =
                             (CacheKeys(cache) \ {LeastRecentlyUsed}) \cup {g.ip}
                       /\ Len(cache') = CacheSize
         ]_vars

\* the first key was used again after the second, the cache then ran full,
\* and the next new key has evicted the second key and kept the first
C18_Witness ==
    /\ cpc = "reply"
    /\ Len(cache) = CacheSize
    /\ Len(recency) = CacheSize + 1
    /\ hip[3] = hip[1]
    /\ recency[Len(recency)].key = hip[2]
    /\ recency[Len(recency) - 1].key = hip[1]
    /\ hip[2] \notin CacheKeys(cache)
    /\ hip[1] \in CacheKeys(cache)
    /\ g.ip = recency[1].key

\* the bytes an address was first answered with since the last swap
FirstAnswer(ip) == recency[CacheIndex(recency, ip)].value

\* C19: a lookup of an address that was looked up with success since the
\* last ReplaceDatabase is answered with the bytes of that first lookup,
\* from the cache or computed again after an eviction, whatever was looked
\* up in between; the record of first answers is emptied only by the
\* ReplaceDatabase that clears the cache.
C19_SameAnswerBetweenSwaps ==
    /\ []((cpc = "reply" /\ jsonData # NilBytes) =>
             (g.ip \in CacheKeys(recency) /\ jsonData = FirstAnswer(g.ip)))
    /\ [][ /\ (LookupStep /\ g.ip \in CacheKeys(recency)) =>
                jsonData' = FirstAnswer(g.ip)
           /\ (~LookupStep /\ recency' # recency) =>
                (cpc = "clear" /\ cpc' = "select" /\ recency' = <<>>)
         ]_vars

\* an address whose entry was evicted is looked up again: the bytes computed
\* anew are those its earlier request got
C19_Witness ==
    /\ cpc = "reply"
    /\ ~found
    /\ jsonData # NilBytes
    /\ Len(recency) > CacheSize
    /\ \E r \in CacheRequests :
          hpc[r] = "done" /\ hip[r] = g.ip /\ got[r] = <<jsonData>>

(***************************************************************************)
(* Handle up to its send, alone: requests arrive one after another at a    *)
(* server that is not otherwise observed, and Handle sets its ip.          *)
(***************************************************************************)
AdapterInit ==
    /\ dbFile = ""
    /\ zone = UTC              \* a host on UTC
    /\ dbURL = ""
    /\ phase = "new"
    /\ db = NilDb
    /\ opened = <<>>
    /\ closed = <<>>
    /\ cache = <<>>
    /\ cacheGen = 0
    /\ dbGen = 0
    /\ cacheGet = <<>>
    /\ hpc = [r \in Requests |-> "idle"]
    /\ hip = [r \in Requests |-> ""]
    /\ got = [r \in Requests |-> <<>>]
    /\ status = [r \in Requests |-> 0]
    /\ cpc = "off"
    /\ g = NoGet
    /\ jsonData = NilBytes
    /\ found = FALSE
    /\ newDb = NilDb
    /\ stale = {}
    /\ wasStale = FALSE
    /\ lastEvent = "none"
    /\ recency = <<>>
    /\ dpc = "off"
    /\ lastModified = ZeroTime
    /\ lastModifiedLoc = UTC
    /\ fetched = NoFetch
    /\ outcome = "none"
    /\ sleepInterval = 0
    /\ remote = 1
    /\ req \in HttpRequests
    /\ ipOfReq = <<>>
    /\ apc = "request"
    /\ dbDate = ZeroTime
    /\ dbDateBefore = ZeroTime
    /\ lm = ZeroTime
    /\ unsynced = {}
    /\ raced = FALSE

\* path := strings.Replace(...); ip := path; if ip == "" { ip = clientIpFor(req) }
HandleIp ==
    /\ apc = "request"
    /\ ipOfReq' = IpOfHandle(req)
    /\ apc' = "ip"
    /\ UNCHANGED <<req, pollVars, configVars, serverVars, opened, cacheGet, handlerVars,
                   runVars, driverVars, remote>>

\* the next call of Handle
HandleNextRequest ==
    /\ apc = "ip"
    /\ \E q \in HttpRequests : req' = q
    /\ ipOfReq' = <<>>
    /\ apc' = "request"
    /\ UNCHANGED <<pollVars, configVars, serverVars, opened, cacheGet, handlerVars, runVars,
                   driverVars, remote>>

AdapterNext ==
    \/ HandleIp
    \/ HandleNextRequest

AdapterSpec == AdapterInit /\ [][AdapterNext]_vars

\* the part of a path after the base prefix
PathRemainder(q) ==
    IF OccursAt(q.path, q.basePath, 1)
    THEN SubSeq(q.path, Len(q.basePath) + 1, Len(q.path))
    ELSE q.path

\* the position of the last ":" of an address, 0 if it has none
LastColon(a) ==
    IF \E i \in 1..Len(a) : a[i] = ":"
    THEN CHOOSE i \in 1..Len(a) : a[i] = ":" /\ \A j \in (i + 1)..Len(a) : a[j] # ":"
    ELSE 0

\* a peer address without its port: the host of host:port, of [host]:port
PeerHost(a) ==
    LET h == IF LastColon(a) = 0 THEN a ELSE SubSeq(a, 1, LastColon(a) - 1)
    IN  IF Len(h) >= 2 /\ h[1] = "[" /\ h[Len(h)] = "]"
        THEN SubSeq(h, 2, Len(h) - 1)
        ELSE h

\* the first entry of a comma-separated list
RECURSIVE FirstEntry(_)
FirstEntry(s) ==
    IF s = <<>> \/ Head(s) = "," THEN <<>> ELSE <<Head(s)>> \o FirstEntry(Tail(s))

\* the subject IP of a request as the claim describes it
SubjectIp(q) ==
    LET chosen == IF PathRemainder(q) # <<>> THEN PathRemainder(q)
                  ELSE IF q.forwardedFor # <<>> THEN q.forwardedFor
                  ELSE PeerHost(q.remoteAddr)
    IN  IF \E i \in 1..Len(chosen) : chosen[i] = ","
        THEN TrimSpace(FirstEntry(chosen))
        ELSE chosen

\* C21 as stated: the ip Handle uses is the path remainder if there is one,
\* else the forwarded-for header if it is not empty, else the peer address
\* without its port; of a comma-separated list it is the first entry,
\* trimmed of spaces.
C21_SubjectIpChosen == apc = "ip" => ipOfReq = SubjectIp(req)

(***************************************************************************)
(* The HEAD-polling server (part_001): NewServer(dbFile) fetches its first *)
(* database from DB_URL when it has no file, keepDbCurrent sleeps, sends a *)
(* HEAD request and compares its Last-Modified with server.dbDate, which   *)
(* run assigns when it applies an update.  Handle and the lookup case of   *)
(* run are those above (server.db is never nil once this server runs).     *)
(***************************************************************************)
DB_URL == "https://s3.amazonaws.com/lantern/GeoLite2-City.mmdb.gz"

\* what http.Head returns: a response and no error; no response and an
\* error; a response together with the error of a failed redirect
HeadResponses ==
    [err : {FALSE}, resp : {TRUE}, lastModifiedOK : BOOLEAN]
    \cup {[err |-> TRUE, resp |-> FALSE, lastModifiedOK |-> FALSE]}
    \cup [err : {TRUE}, resp : {TRUE}, lastModifiedOK : BOOLEAN]

\* what http.Get returns and what its body holds
GetBodies == {"database", "notGzip", "truncated", "undecodable"}
GetResponses == [sent : BOOLEAN, lastModifiedOK : BOOLEAN, body : GetBodies]

\* readDbFromWeb() of part_001: "ok" or "error"
pollReadDbFromWeb(resp) ==
    IF ~resp.sent THEN "error"
    ELSE IF resp.body = "notGzip" THEN "error"
    ELSE IF resp.body = "truncated" THEN "error"
    ELSE IF ~resp.lastModifiedOK THEN "error"
    ELSE IF resp.body # "database" THEN "error"
    ELSE "ok"

\* the values a read of server.dbDate can give: the field itself, and also
\* its previous value while run's assignment is not ordered before the read
DatesReadable == IF "write" \in unsynced THEN {dbDate, dbDateBefore} ELSE {dbDate}

PollInit ==
    /\ dbFile \in DbFiles
    /\ zone = UTC              \* a host on UTC
    /\ dbURL = DB_URL
    /\ phase = "new"
    /\ db = NilDb
    /\ opened = <<>>
    /\ closed = <<>>
    /\ cache = <<>>
    /\ cacheGen = 0
    /\ dbGen = 0
    /\ cacheGet = <<>>
    /\ hpc = [r \in Requests |-> "idle"]
    /\ hip = [r \in Requests |-> ""]
    /\ got = [r \in Requests |-> <<>>]
    /\ status = [r \in Requests |-> 0]
    /\ cpc = "off"
    /\ g = NoGet
    /\ jsonData = NilBytes
    /\ found = FALSE
    /\ newDb = NilDb
    /\ stale = {}
    /\ wasStale = FALSE
    /\ lastEvent = "none"
    /\ recency = <<>>
    /\ dpc = "off"
    /\ lastModified = ZeroTime
    /\ lastModifiedLoc = UTC
    /\ fetched = NoFetch
    /\ outcome = "none"
    /\ sleepInterval = 0
    /\ remote = 1
    /\ req = NoRequest
    /\ ipOfReq = <<>>
    /\ apc = "off"
    /\ dbDate = ZeroTime
    /\ dbDateBefore = ZeroTime
    /\ lm = ZeroTime
    /\ unsynced = {}
    /\ raced = FALSE

\* NewServer(dbFile) of part_001
PollNewServer ==
    /\ phase = "new"
    /\ cacheGet' = <<>>
    /\ cache' = <<>>
    /\ \E resp \in GetResponses :
          IF (dbFile # "" /\ ~FileReadable(dbFile))
               \/ (dbFile = "" /\ pollReadDbFromWeb(resp) # "ok")
          THEN \* return nil, err
               /\ phase' = "failed"
               /\ UNCHANGED <<db, opened, closed, dbDate, cpc, dpc>>
          ELSE /\ db' = NextHandle
               /\ opened' = Append(opened,
                      IF dbFile # ""
                      THEN [from |-> "file", modified |-> FileModTime(dbFile)]
                      ELSE [from |-> "web", modified |-> remote])
               /\ closed' = Append(closed, 0)
               /\ dbDate' = IF dbFile # "" THEN FileModTime(dbFile) ELSE remote
               /\ cpc' = "select"          \* go server.run()
               /\ dpc' = "sleep"           \* go server.keepDbCurrent()
               /\ phase' = "running"
    /\ UNCHANGED <<adapterVars, dbFile, dbURL, zone, cacheGen, recency, dbGen, stale, lastEvent,
                   handlerVars, g, jsonData, found, newDb, wasStale,
                   lastModified, lastModifiedLoc, fetched, outcome, sleepInterval, remote,
                   dbDateBefore, lm, unsynced, raced>>

\* time.Sleep(1 * time.Minute)
PollSleep ==
    /\ dpc = "sleep"
    /\ dpc' = "head"
    /\ outcome' = "none"
    /\ UNCHANGED <<adapterVars, pollVars, configVars, serverVars, opened, cacheGet,
                   handlerVars, runVars, lastModified, lastModifiedLoc, fetched, sleepInterval, remote>>

\* http.Head(DB_URL) and lastModified(headResp): an error of Head is logged
\* and headResp is used all the same; resp.Header of a nil response is a nil
\* pointer dereference, a panic that ends the program
PollHead ==
    /\ dpc = "head"
    /\ \E h \in HeadResponses :
          /\ outcome' = IF h.err THEN "headError" ELSE "head"
          /\ IF ~h.resp
             THEN /\ dpc' = "panic"
                  /\ cpc' = "off"
                  /\ phase' = "crashed"
                  /\ lm' = lm
             ELSE /\ lm' = IF h.lastModifiedOK THEN remote ELSE ZeroTime
                  /\ dpc' = "compare"
                  /\ UNCHANGED <<cpc, phase>>
    /\ UNCHANGED <<adapterVars, dbDate, dbDateBefore, unsynced, raced, dbFile, dbURL, zone,
                   serverVars, opened, cacheGet, handlerVars, g, jsonData, found, newDb,
                   wasStale, lastModified, lastModifiedLoc, fetched, sleepInterval, remote>>

\* if lm.After(server.dbDate): a read of the field run assigns
PollCompare ==
    /\ dpc = "compare"
    /\ \E d \in DatesReadable : dpc' = IF lm > d THEN "fetch" ELSE "sleep"
    /\ raced' = (raced \/ "write" \in unsynced)
    /\ unsynced' = unsynced \cup {"read"}
    /\ UNCHANGED <<adapterVars, dbDate, dbDateBefore, lm, configVars, serverVars, opened,
                   cacheGet, handlerVars, runVars, lastModified, lastModifiedLoc, fetched, outcome,
                   sleepInterval, remote>>

\* db, dbDate, err := readDbFromWeb()
PollFetch ==
    /\ dpc = "fetch"
    /\ \E resp \in GetResponses :
          /\ outcome' = pollReadDbFromWeb(resp)
          /\ IF pollReadDbFromWeb(resp) = "ok"
             THEN /\ opened' = Append(opened, [from |-> "web", modified |-> remote])
                  /\ closed' = Append(closed, 0)
                  /\ fetched' = [db |-> NextHandle, modifiedTime |-> remote]
                  /\ dpc' = "send"
             ELSE /\ dpc' = "sleep"
                  /\ UNCHANGED <<opened, closed, fetched>>
    /\ UNCHANGED <<adapterVars, pollVars, configVars, db, cache, cacheGen, recency, dbGen,
                   stale, lastEvent, cacheGet, handlerVars, runVars, lastModified, lastModifiedLoc,
                   sleepInterval, remote>>

\* case update := <-server.dbUpdate, together with server.dbUpdate <- dbu{db, dbDate}:
\* the one channel operation between run and keepDbCurrent
PollRecvUpdate ==
    /\ cpc = "select"
    /\ dpc = "send"
    /\ newDb' = fetched.db
    /\ cpc' = "close"
    /\ dpc' = "sleep"
    /\ unsynced' = {}
    /\ UNCHANGED <<adapterVars, dbDate, dbDateBefore, lm, raced, configVars, serverVars,
                   opened, cacheGet, handlerVars, g, jsonData, found, wasStale,
                   lastModified, lastModifiedLoc, fetched, outcome, sleepInterval, remote>>

\* server.db = update.db; server.dbDate = update.dbDate
PollApply ==
    /\ cpc = "apply"
    /\ db' = newDb
    /\ dbDateBefore' = dbDate
    /\ dbDate' = opened[newDb].modified
    /\ dbGen' = dbGen + 1
    /\ raced' = (raced \/ "read" \in unsynced)
    /\ unsynced' = unsynced \cup {"write"}
    /\ cpc' = "clear"
    /\ UNCHANGED <<adapterVars, lm, configVars, closed, cache, cacheGen, recency, stale,
                   lastEvent, opened, cacheGet, handlerVars, g, jsonData, found, newDb,
                   wasStale, driverVars, remote>>

PollNext ==
    \/ PollNewServer
    \/ \E r \in Requests, ip \in IPs : HandleSend(r, ip)
    \/ RunRecvGet
    \/ RunLookup
    \/ Reply
    \/ PollRecvUpdate
    \/ RunClose
    \/ PollApply
    \/ RunClear
    \/ PollSleep
    \/ PollHead
    \/ PollCompare
    \/ PollFetch
    \/ RemotePublish

PollSpec == PollInit /\ [][PollNext]_vars

\* C22 as stated: after a failed HEAD request the driver has not crashed,
\* the server runs, and the poll leads to no fetch and no send on dbUpdate.
C22_FailedHeadIgnored ==
    outcome = "headError" =>
        (phase = "running" /\ dpc \notin {"panic", "fetch", "send"})

\* C23 as stated: no read of the freshness timestamp by one goroutine is
\* unordered with a write of it by another.
C23_TimestampNeverRaces == ~raced

(***************************************************************************)
(* The server of geoserve.go under a stream of requests that never ends:   *)
(* a Handle that has written its response returns, and its place is taken  *)
(* by a new request, so that run can find a get queued at every select.    *)
(***************************************************************************)
\* Handle returns after resp.WriteHeader or resp.Write
HandleReturn(r) ==
    /\ hpc[r] = "done"
    /\ hpc' = [hpc EXCEPT ![r] = "idle"]
    /\ hip' = [hip EXCEPT ![r] = ""]
    /\ got' = [got EXCEPT ![r] = <<>>]
    /\ status' = [status EXCEPT ![r] = 0]
    /\ UNCHANGED <<adapterVars, pollVars, configVars, serverVars, opened, cacheGet, runVars,
                   driverVars, remote>>

\* the requests in flight at a time, and the addresses they ask for: one
\* that the database answers and one that fails
StreamRequests == 1..(MaxRequests - 1)
StreamIPs == {ValidIPSeq[1], "not-an-ip"}

StreamInit ==
    /\ dbFile \in DbFiles
    /\ zone = UTC              \* a host on UTC
    /\ dbURL \in DbURLs
    /\ phase = "new"
    /\ db = NilDb
    /\ opened = <<>>
    /\ closed = <<>>
    /\ cache = <<>>
    /\ cacheGen = 0
    /\ dbGen = 0
    /\ cacheGet = <<>>
    /\ hpc = [r \in StreamRequests |-> "idle"]
    /\ hip = [r \in StreamRequests |-> ""]
    /\ got = [r \in StreamRequests |-> <<>>]
    /\ status = [r \in StreamRequests |-> 0]
    /\ cpc = "off"
    /\ g = NoGet
    /\ jsonData = NilBytes
    /\ found = FALSE
    /\ newDb = NilDb
    /\ stale = {}
    /\ wasStale = FALSE
    /\ lastEvent = "none"
    /\ recency = <<>>
    /\ dpc = "off"
    /\ lastModified = ZeroTime
    /\ lastModifiedLoc = UTC
    /\ fetched = NoFetch
    /\ outcome = "none"
    /\ sleepInterval = 0
    /\ remote = 1
    /\ req = NoRequest
    /\ ipOfReq = <<>>
    /\ apc = "off"
    /\ dbDate = ZeroTime
    /\ dbDateBefore = ZeroTime
    /\ lm = ZeroTime
    /\ unsynced = {}
    /\ raced = FALSE

StreamNext ==
    \/ NewServer
    \/ \E r \in StreamRequests, ip \in StreamIPs : HandleSend(r, ip)
    \/ \E r \in StreamRequests : HandleReturn(r)
    \/ RunRecvGet
    \/ RunLookup
    \/ Reply
    \/ RunRecvUpdate
    \/ RunClose
    \/ RunApply
    \/ RunClear
    \/ UpdateDbFetch
    \/ UpdateDbSleep
    \/ RemotePublish

StreamSpec == StreamInit /\ [][StreamNext]_vars /\ RunFairness

\* the handles the driver can have opened
Handles == 1..(MaxRemote + 1)

\* the handles that came from the web
WebHandles == {h \in 1..Len(opened) : opened[h].from = "web"}

\* C24: with a fair select, every handle the driver offers on dbUpdate
\* becomes server.db, however many requests keep arriving; the send ends in
\* the step in which run at its select takes the handle; server.db only
\* moves to the handle run received, a later one than before, and every
\* handle fetched is installed, being installed or still offered.
C24_OfferedHandleInstalled ==
    /\ \A h \in Handles : (dpc = "send" /\ fetched.db = h) ~> (db = h)
    /\ [](/\ Len(opened) <= MaxRemote + 1
          /\ Cardinality(WebHandles) =
                 dbGen + (IF dpc = "send" THEN 1 ELSE 0)
                       + (IF cpc \in {"close", "apply"} THEN 1 ELSE 0)
          /\ dpc = "send" => fetched.db = Len(opened))
    /\ [][ /\ HandOverStep => (cpc = "select" /\ cpc' = "close" /\ newDb' = fetched.db)
           /\ (phase = "running" /\ db' # db) =>
                  (cpc = "apply" /\ db' = newDb /\ db' > db /\ db' \in WebHandles)
         ]_vars

\* a second handle from the web has been installed while requests are queued
\* and an earlier request has returned
C24_Witness ==
    /\ cpc = "select"
    /\ dbGen >= 2
    /\ db = Len(opened)
    /\ cacheGet # <<>>
    /\ \E r \in StreamRequests :
          hpc[r] = "idle" /\ \E q \in StreamRequests : q > r /\ hpc[q] # "idle"

=============================================================================
